---- MODULE Spec2Model ----
(***************************************************************************)
(* The Workbench component of frontend/src/components (the document        *)
(* editor with its preview, diagram and outline panes).                    *)
(*                                                                         *)
(* Texts are TLA+ strings.  A TLA+ string cannot hold the backquote        *)
(* character, so the model writes ' wherever the source text has a         *)
(* backquote: the Markdown fence marker is written '''.                    *)
(***************************************************************************)
EXTENDS Integers, Sequences, FiniteSets, TLC

(***************************************************************************)
(* Bounds of the model.                                                    *)
(***************************************************************************)
\* The number of content changes explored after the component has mounted.
MaxRevision == 2

\* The longest text, in lines, the derivations are applied to.
MaxLines == 3

\* The longest query, in characters, typed into the AI Oracle.
MaxQueryLen == 2

\* The number of submissions of the query form explored.
MaxSubmits == 2

(***************************************************************************)
(* JavaScript values.                                                      *)
(***************************************************************************)
\* The value undefined, kept apart from every text of the model.
Undefined == "undefined"

\* The values the tests `value || ''` and `diagramHtml ? ... : ...` treat as false.
Falsy(v) == v = "" \/ v = Undefined

(***************************************************************************)
(* Strings.                                                                *)
(***************************************************************************)
RECURSIVE Join(_, _)
\* lines.join(sep)
Join(lines, sep) ==
    IF Len(lines) = 0 THEN ""
    ELSE IF Len(lines) = 1 THEN lines[1]
    ELSE lines[1] \o sep \o Join(Tail(lines), sep)

\* The least index i >= from at which pat occurs in s, or 0 when there is none.
IndexOf(s, pat, from) ==
    LET hits == {i \in from..(Len(s) - Len(pat) + 1) : SubSeq(s, i, i + Len(pat) - 1) = pat}
    IN  IF hits = {} THEN 0 ELSE CHOOSE i \in hits : \A j \in hits : i <= j

\* The last index of s, at or after from, where pat occurs; 0 when there is none.
LastIndexOf(s, pat, from) ==
    LET hits == {i \in from..(Len(s) - Len(pat) + 1) : SubSeq(s, i, i + Len(pat) - 1) = pat}
    IN  IF hits = {} THEN 0 ELSE CHOOSE i \in hits : \A j \in hits : i >= j

\* sub occurs in s
Contains(s, sub) == IndexOf(s, sub, 1) # 0

\* s.startsWith(p)
StartsWith(s, p) == Len(s) >= Len(p) /\ SubSeq(s, 1, Len(p)) = p

RECURSIVE Split(_, _)
\* s.split(sep)
Split(s, sep) ==
    LET i == IndexOf(s, sep, 1)
    IN  IF i = 0 THEN <<s>>
        ELSE <<SubSeq(s, 1, i - 1)>> \o Split(SubSeq(s, i + Len(sep), Len(s)), sep)

(***************************************************************************)
(* The document the editor opens with.                                     *)
(***************************************************************************)
InitialLines == <<
    "# Solution Architecture Document",
    "",
    "## Context",
    "We need to design a scalable e-commerce platform that can handle high traffic during peak shopping seasons.",
    "",
    "## Requirements",
    "- Handle 10,000+ concurrent users",
    "- 99.9% uptime",
    "- Sub-second response times",
    "- PCI DSS compliance",
    "",
    "## Architecture Decision Record",
    "",
    "### Status",
    "Proposed",
    "",
    "### Context",
    "The current monolithic architecture cannot scale to meet our growing user base and performance requirements.",
    "",
    "### Decision",
    "We will adopt a microservices architecture using containerized services on Kubernetes.",
    "",
    "### Consequences",
    "**Positive:**",
    "- Better scalability and fault isolation",
    "- Independent deployment of services",
    "- Technology diversity for different services",
    "",
    "**Negative:**",
    "- Increased operational complexity",
    "- Network latency between services",
    "- Distributed system challenges",
    "",
    "## System Architecture",
    "",
    "'''mermaid",
    "graph TB",
    "    A[Load Balancer] --> B[API Gateway]",
    "    B --> C[User Service]",
    "    B --> D[Product Service]",
    "    B --> E[Order Service]",
    "    B --> F[Payment Service]",
    "    ",
    "    C --> G[(User DB)]",
    "    D --> H[(Product DB)]",
    "    E --> I[(Order DB)]",
    "    F --> J[(Payment DB)]",
    "    ",
    "    K[Redis Cache] --> B",
    "    L[Message Queue] --> E",
    "    L --> F",
    "'''",
    "",
    "## Implementation Plan",
    "1. Set up Kubernetes cluster",
    "2. Containerize existing services",
    "3. Implement API Gateway",
    "4. Migrate data to microservices",
    "5. Set up monitoring and logging"
>>

InitialContent == Join(InitialLines, "\n")

(***************************************************************************)
(* mermaidRegex = /'''mermaid\n([\s\S]*?)\n'''/g and content.matchAll.     *)
(***************************************************************************)
\* The literal text the regex starts with.
FenceOpen == "'''mermaid\n"

\* The literal text the regex ends with.
FenceClose == "\n'''"

\* The first match at or after index from: the opening text, then the shortest
\* run of any characters (the lazy group 1) that is followed by the closing text.
\* <<>> when there is none.  A match is [index, group, last]: where it starts,
\* its group 1, and the index just after it (the regex's lastIndex).
MatchFrom(s, from) ==
    LET open == IndexOf(s, FenceOpen, from)
        close == IF open = 0 THEN 0 ELSE IndexOf(s, FenceClose, open + Len(FenceOpen))
    IN  IF open = 0 \/ close = 0 THEN <<>>
        ELSE << [index |-> open,
                 group |-> SubSeq(s, open + Len(FenceOpen), close - 1),
                 last  |-> close + Len(FenceClose)] >>

RECURSIVE MatchAllFrom(_, _)
MatchAllFrom(s, from) ==
    LET m == MatchFrom(s, from)
    IN  IF m = <<>> THEN <<>> ELSE m \o MatchAllFrom(s, m[1].last)

\* [...content.matchAll(mermaidRegex)]
MatchAll(s) == MatchAllFrom(s, 1)

(***************************************************************************)
(* The rendering service, mermaid.render.                                  *)
(***************************************************************************)
\* The markup mermaid draws for a diagram source: a text that tells the sources apart.
Svg(code) == "<svg>" \o code \o "</svg>"

\* What the svg field of a fulfilled mermaid.render(id, code) may hold: the
\* drawing, an empty text, or nothing.
ServiceMarkup(code) == {Svg(code), "", Undefined}

\* The reasons a rejected mermaid.render may report.
ServiceErrors == {"Parse error on line 1", "mermaid is unavailable"}

\* The markup the catch branch shows.
ErrorHtml == "<p class=\"text-red-500\">Error rendering diagram</p>"

(***************************************************************************)
(* The texts the editor may deliver.                                       *)
(***************************************************************************)
FenceOf(code) == "'''mermaid\n" \o code \o "\n'''"

DocTitle == "# Title\n\n" \o FenceOf("graph TB\nA-->B") \o "\n"

DocEmptyFence == FenceOf("")

DocOther == "# Other\n" \o FenceOf("graph LR\nX-->Y")

DocTwo == DocTitle \o FenceOf("graph TB\nC-->D") \o "\n"

DocTwoEdited == DocTitle \o FenceOf("graph TB\nC-->E") \o "\n"

DocProse == "# Notes\n## Plan\nno diagram here"

Documents == {InitialContent, "", DocProse, DocEmptyFence, DocTitle, DocOther, DocTwo, DocTwoEdited}

\* The sources of the diagram blocks of these texts.
BlockSources == UNION {{MatchAll(d)[i].group : i \in 1..Len(MatchAll(d))} : d \in Documents}

\* The argument of the editor's onChange: a text, or undefined.
EditorValues == Documents \cup {Undefined}

Tabs == {"editor", "preview", "diagram", "outline"}

(***************************************************************************)
(* State.                                                                  *)
(***************************************************************************)
VARIABLES
    content,        \* useState: the document text
    activeTab,      \* useState: the pane shown on the right
    diagramHtml,    \* useState: the markup of the diagram pane
    inflight,       \* the mermaid.render calls not settled yet, each with what its effect closed over
    consoleErrors,  \* what console.error has logged
    revision,       \* history: how many times content has changed (the runs of the effect after the first)
    shownRev,       \* history: the revision whose effect last wrote diagramHtml
    lastResponse,   \* history: the last answer of mermaid.render
    output,         \* what a pane has last derived from content: the pane and the value
    query,          \* AIOracle useState: the text of the query input
    isLoading,      \* AIOracle useState: the simulated processing is under way
    timers,         \* the setTimeout callbacks of handleSubmit that have not run yet
    asked,          \* history: the query the last accepted submission was made with
    submits,        \* history: how many times handleSubmit has been called
    pc,             \* build-and-push.sh: the command the script runs next
    SERVICE,        \* build-and-push.sh: the loop variable
    todo,           \* build-and-push.sh: the words of the for list not yet taken
    ran,            \* history: the commands the script has run, each with its outcome
    stdout          \* what the script has printed, one entry per message

\* The state of the AIOracle component.
oracleVars == <<query, isLoading, timers, asked, submits>>

\* The state of a run of build-and-push.sh.
scriptVars == <<pc, SERVICE, todo, ran, stdout>>

vars == <<content, activeTab, diagramHtml, inflight, consoleErrors, revision, shownRev, lastResponse, output, oracleVars, scriptVars>>

\* lastResponse before any call of mermaid.render has settled.
NoResponse == [rev |-> -1, ok |-> TRUE, value |-> ""]

\* output before any pane has derived anything.
NoOutput == [pane |-> "none", value |-> ""]

\* AIOracle as it mounts: useState('') and useState(false), no timer set.
InitOracle ==
    /\ query = ""
    /\ isLoading = FALSE
    /\ timers = 0
    /\ asked = ""
    /\ submits = 0

\* SERVICES=(...), line 13.
SERVICES == <<"frontend", "api-gateway", "ai-oracle", "knowledge-hub", "collaboration-engine", "integration-layer">>

\* build-and-push.sh as it starts: nothing run, nothing printed, the first
\* check is next.
InitScript ==
    /\ pc = "docker info"
    /\ SERVICE = ""
    /\ todo = SERVICES
    /\ ran = <<>>
    /\ stdout = <<>>

\* A call of mermaid.render that has not settled: the run of the effect that
\* made it (rev), and the content and diagramCode that run closed over.
IsCall(c) ==
    /\ c.rev \in 0..MaxRevision
    /\ c.text \in Documents
    /\ c.code \in BlockSources

\* The values the state takes.
TypeOK ==
    /\ content \in Documents
    /\ activeTab \in Tabs
    /\ diagramHtml \in {"", Undefined, ErrorHtml} \cup {Svg(code) : code \in BlockSources}
    /\ \A c \in inflight : IsCall(c)
    /\ \A i \in 1..Len(consoleErrors) : consoleErrors[i] \in ServiceErrors
    /\ revision \in 0..MaxRevision
    /\ shownRev \in 0..revision
    /\ lastResponse = NoResponse \/ lastResponse.rev \in 0..revision
    /\ output = NoOutput
    /\ InitOracle
    /\ InitScript

(***************************************************************************)
(* The effect of useEffect(..., [content]): extractMermaidDiagrams.        *)
(***************************************************************************)
\* A variant of DiagramCode that takes the last block instead of the first.
DiagramCode_Last(matches) == matches[Len(matches)].group

\* const diagramCode = matches[0][1]
DiagramCode(matches) == matches[1].group

\* A variant of IssueRender that makes no call for a source a pending call already carries.
IssueRender_Deduplicated(text, rev, code) ==
    /\ inflight' = IF \E c \in inflight : c.code = code
                   THEN inflight
                   ELSE inflight \cup {[rev |-> rev, text |-> text, code |-> code]}
    /\ UNCHANGED <<diagramHtml, shownRev>>

\* A variant of IssueRender that empties the diagram view while the call is pending.
IssueRender_Clears(text, rev, code) ==
    /\ inflight' = inflight \cup {[rev |-> rev, text |-> text, code |-> code]}
    /\ diagramHtml' = ""
    /\ shownRev' = rev

\* The try branch up to its await: one call of mermaid.render, left pending.
IssueRender(text, rev, code) ==
    /\ inflight' = inflight \cup {[rev |-> rev, text |-> text, code |-> code]}
    /\ UNCHANGED <<diagramHtml, shownRev>>

\* A variant of NoDiagram that leaves the diagram view as it is.
NoDiagram_Keeps(rev) ==
    UNCHANGED <<diagramHtml, shownRev, inflight>>

\* The else branch: setDiagramHtml('')
NoDiagram(rev) ==
    /\ diagramHtml' = ""
    /\ shownRev' = rev
    /\ UNCHANGED inflight

\* The part of extractMermaidDiagrams that runs when the effect runs.
ExtractMermaidDiagrams(text, rev) ==
    LET matches == MatchAll(text)
    IN  IF Len(matches) > 0
        THEN IssueRender(text, rev, DiagramCode(matches))
        ELSE NoDiagram(rev)

Init ==
    /\ content = InitialContent
    /\ activeTab = "editor"
    /\ diagramHtml = ""
    /\ inflight = {[rev |-> 0, text |-> InitialContent, code |-> DiagramCode(MatchAll(InitialContent))]}
    /\ consoleErrors = <<>>
    /\ revision = 0
    /\ shownRev = 0
    /\ lastResponse = NoResponse
    /\ output = NoOutput
    /\ InitOracle
    /\ InitScript

(***************************************************************************)
(* Operations.                                                             *)
(***************************************************************************)
\* handleEditorChange(value): setContent(value || ''), and the effect React
\* runs when content has changed.  Setting the text content already has
\* changes nothing and runs no effect.
HandleEditorChange(value) ==
    LET text == IF Falsy(value) THEN "" ELSE value
    IN  /\ revision < MaxRevision
        /\ IF text = content
           THEN UNCHANGED vars
           ELSE /\ content' = text
                /\ revision' = revision + 1
                /\ ExtractMermaidDiagrams(text, revision + 1)
                /\ UNCHANGED <<activeTab, consoleErrors, lastResponse, output, oracleVars, scriptVars>>

\* A variant of SetActiveTab that runs the effect again for the pane it shows.
SetActiveTab_Refreshes(tab) ==
    /\ activeTab' = tab
    /\ ExtractMermaidDiagrams(content, revision)
    /\ UNCHANGED <<content, consoleErrors, revision, lastResponse, output, oracleVars, scriptVars>>

\* <Tabs onValueChange={setActiveTab}>
SetActiveTab(tab) ==
    /\ activeTab' = tab
    /\ UNCHANGED <<content, diagramHtml, inflight, consoleErrors, revision, shownRev, lastResponse, output, oracleVars, scriptVars>>

\* A variant of RenderFulfilled that wraps the markup before it shows it.
RenderFulfilled_Wrapped(c, svg) ==
    /\ c \in inflight
    /\ inflight' = inflight \ {c}
    /\ diagramHtml' = "<div class=\"diagram\">" \o svg \o "</div>"
    /\ shownRev' = c.rev
    /\ lastResponse' = [rev |-> c.rev, ok |-> TRUE, value |-> svg]
    /\ UNCHANGED <<content, activeTab, consoleErrors, revision, output, oracleVars, scriptVars>>

\* The await of call c is fulfilled with { svg }: setDiagramHtml(svg)
RenderFulfilled(c, svg) ==
    /\ c \in inflight
    /\ inflight' = inflight \ {c}
    /\ diagramHtml' = svg
    /\ shownRev' = c.rev
    /\ lastResponse' = [rev |-> c.rev, ok |-> TRUE, value |-> svg]
    /\ UNCHANGED <<content, activeTab, consoleErrors, revision, output, oracleVars, scriptVars>>

\* A variant of RenderRejected that shows the reported reason.
RenderRejected_ShowsReason(c, error) ==
    /\ c \in inflight
    /\ inflight' = inflight \ {c}
    /\ consoleErrors' = Append(consoleErrors, error)
    /\ diagramHtml' = "<p class=\"text-red-500\">" \o error \o "</p>"
    /\ shownRev' = c.rev
    /\ lastResponse' = [rev |-> c.rev, ok |-> FALSE, value |-> error]
    /\ UNCHANGED <<content, activeTab, revision, output, oracleVars, scriptVars>>

\* The await of call c throws: the catch branch.
RenderRejected(c, error) ==
    /\ c \in inflight
    /\ inflight' = inflight \ {c}
    /\ consoleErrors' = Append(consoleErrors, error)
    /\ diagramHtml' = ErrorHtml
    /\ shownRev' = c.rev
    /\ lastResponse' = [rev |-> c.rev, ok |-> FALSE, value |-> error]
    /\ UNCHANGED <<content, activeTab, revision, output, oracleVars, scriptVars>>

Next ==
    \/ \E value \in EditorValues : HandleEditorChange(value)
    \/ \E tab \in Tabs : SetActiveTab(tab)
    \/ \E c \in inflight : \E svg \in ServiceMarkup(c.code) : RenderFulfilled(c, svg)
    \/ \E c \in inflight : \E error \in ServiceErrors : RenderRejected(c, error)

Spec == Init /\ [][Next]_vars

(***************************************************************************)
(* What the panes show.                                                    *)
(***************************************************************************)
\* The diagram pane: diagramHtml ? <its markup> : <"No diagrams found in the document">.
\* The markup is the error text of the catch branch (Failed) or a drawing (Ready).
DiagramPane(html) ==
    IF Falsy(html) THEN "NoDiagram"
    ELSE IF html = ErrorHtml THEN "Failed"
    ELSE "Ready"

\* The outline pane: ten entries written out in the component, indented by
\* pl-0, pl-4 and pl-8 (levels 1, 2 and 3).
Outline == <<
    [level |-> 1, label |-> "Solution Architecture Document"],
    [level |-> 2, label |-> "Context"],
    [level |-> 2, label |-> "Requirements"],
    [level |-> 2, label |-> "Architecture Decision Record"],
    [level |-> 3, label |-> "Status"],
    [level |-> 3, label |-> "Context"],
    [level |-> 3, label |-> "Decision"],
    [level |-> 3, label |-> "Consequences"],
    [level |-> 2, label |-> "System Architecture"],
    [level |-> 2, label |-> "Implementation Plan"]
>>

\* The entries as the pane renders them: each is <a href="#" ...>label</a>.
OutlineEntries ==
    [i \in 1..Len(Outline) |->
        [level |-> Outline[i].level, label |-> Outline[i].label, href |-> "#"]]

(***************************************************************************)
(* renderMarkdown: eight String.replace calls, each on the result of the   *)
(* one before.                                                             *)
(***************************************************************************)
H1Open == "<h1 class=\"text-3xl font-bold mb-4\">"

H2Open == "<h2 class=\"text-2xl font-semibold mb-3\">"

H3Open == "<h3 class=\"text-xl font-medium mb-2\">"

DiagramPlaceholder == "<div class=\"diagram-placeholder\">Diagram rendered above</div>"

PreOpen == "<pre class=\"bg-muted p-4 rounded-lg overflow-x-auto\"><code>"

PreClose == "</code></pre>"

\* A variant of HeadingRule that does not ask for the space after the marker.
HeadingRule_NoSpace(line, marker, open, close) ==
    LET hashes == SubSeq(marker, 1, Len(marker) - 1)
    IN  IF StartsWith(line, hashes)
        THEN open \o SubSeq(line, Len(hashes) + 1, Len(line)) \o close
        ELSE line

\* /^# (.*$)/gim and its two siblings, on one line: with the m flag ^ and $
\* are the ends of a line and . stops at the line break, so a line that starts
\* with the marker ("# ", "## " or "### ") is wrapped whole and any other line
\* is left alone.
HeadingRule(line, marker, open, close) ==
    IF StartsWith(line, marker)
    THEN open \o SubSeq(line, Len(marker) + 1, Len(line)) \o close
    ELSE line

\* /\*\*(.*)\*\*/gim and /\*(.*)\*/gim, on one line: the match starts at the
\* first mark of the line and the greedy group runs to the last mark of the
\* line, so a line has at most one match.
EmphasisRule(line, mark, open, close) ==
    LET i == IndexOf(line, mark, 1)
        j == IF i = 0 THEN 0 ELSE LastIndexOf(line, mark, i + Len(mark))
    IN  IF j = 0 THEN line
        ELSE SubSeq(line, 1, i - 1) \o open \o SubSeq(line, i + Len(mark), j - 1)
                 \o close \o SubSeq(line, j + Len(mark), Len(line))

\* The first five replace calls work line by line.
LineRules(line) ==
    LET h1 == HeadingRule(line, "# ", H1Open, "</h1>")
        h2 == HeadingRule(h1, "## ", H2Open, "</h2>")
        h3 == HeadingRule(h2, "### ", H3Open, "</h3>")
        strong == EmphasisRule(h3, "**", "<strong>", "</strong>")
    IN  EmphasisRule(strong, "*", "<em>", "</em>")

\* The result of the first five replace calls on a text.
InlineRules(text) ==
    LET lines == Split(text, "\n")
    IN  Join([i \in 1..Len(lines) |-> LineRules(lines[i])], "\n")

RECURSIVE ReplaceDiagramFences(_)
\* .replace(/'''mermaid\n([\s\S]*?)\n'''/g, <placeholder>)
ReplaceDiagramFences(s) ==
    LET m == MatchFrom(s, 1)
    IN  IF m = <<>> THEN s
        ELSE SubSeq(s, 1, m[1].index - 1) \o DiagramPlaceholder
                 \o ReplaceDiagramFences(SubSeq(s, m[1].last, Len(s)))

\* The first match of /'''(.*?)\n([\s\S]*?)\n'''/ in s: the marker, the rest of
\* its line (group 1), the line break, and the shortest text (group 2, body)
\* that is followed by a line break and a marker.  <<>> when there is none.
CodeFenceMatch(s) ==
    LET open == IndexOf(s, "'''", 1)
        eol == IF open = 0 THEN 0 ELSE IndexOf(s, "\n", open + 3)
        close == IF eol = 0 THEN 0 ELSE IndexOf(s, FenceClose, eol + 1)
    IN  IF close = 0 THEN <<>>
        ELSE << [index |-> open,
                 tag   |-> SubSeq(s, open + 3, eol - 1),
                 body  |-> SubSeq(s, eol + 1, close - 1),
                 last  |-> close + Len(FenceClose)] >>

RECURSIVE ReplaceCodeFences(_)
\* .replace(/'''(.*?)\n([\s\S]*?)\n'''/g, '<pre ...><code>$2</code></pre>')
ReplaceCodeFences(s) ==
    LET m == CodeFenceMatch(s)
    IN  IF m = <<>> THEN s
        ELSE SubSeq(s, 1, m[1].index - 1) \o PreOpen \o m[1].body \o PreClose
                 \o ReplaceCodeFences(SubSeq(s, m[1].last, Len(s)))

\* .replace(/\n/g, '<br>')
LineBreaks(s) == Join(Split(s, "\n"), "<br>")

\* renderMarkdown(text)
RenderMarkdown(text) ==
    LineBreaks(ReplaceCodeFences(ReplaceDiagramFences(InlineRules(text))))

\* renderMarkdown of each text the editor may deliver.
Previews == [d \in Documents |-> RenderMarkdown(d)]

\* The preview pane: dangerouslySetInnerHTML={{ __html: renderMarkdown(content) }}
Preview == Previews[content]

(***************************************************************************)
(* The derivations as functions of the text: content is any text of a few  *)
(* lines, nothing else of the component moves, and each step computes what *)
(* one pane derives from content.                                          *)
(***************************************************************************)
\* The lines the texts are made of.
Lines == {"", "A", "**x**", "'''mermaid", "'''js", "'''",
          "# A", "## A", "### A", "#### A", "##### A", "###### A", "## *A*"}

\* A diagram fence that opens inside another one.
NestedFences == Join(<<"'''mermaid", "A", "'''mermaid", "B", "'''", "C", "'''">>, "\n")

\* Headings at levels 1, 2, 3, 2, 1.
FiveHeadings == Join(<<"# P", "## Q", "### R", "## S", "# T">>, "\n")

\* Every text of at most MaxLines of these lines, and the two texts above.
Texts ==
    {Join(ls, "\n") : ls \in UNION {[1..n -> Lines] : n \in 0..MaxLines}}
        \cup {NestedFences, FiveHeadings}

InitPanes ==
    /\ content \in Texts
    /\ activeTab = "editor"
    /\ diagramHtml = ""
    /\ inflight = {}
    /\ consoleErrors = <<>>
    /\ revision = 0
    /\ shownRev = 0
    /\ lastResponse = NoResponse
    /\ output = NoOutput
    /\ InitOracle
    /\ InitScript

\* const matches = [...content.matchAll(mermaidRegex)]
MatchDiagrams ==
    /\ output' = [pane |-> "diagram", value |-> MatchAll(content)]
    /\ UNCHANGED <<content, activeTab, diagramHtml, inflight, consoleErrors, revision, shownRev, lastResponse, oracleVars, scriptVars>>

\* __html: renderMarkdown(content)
RenderPreview ==
    /\ output' = [pane |-> "preview", value |-> RenderMarkdown(content)]
    /\ UNCHANGED <<content, activeTab, diagramHtml, inflight, consoleErrors, revision, shownRev, lastResponse, oracleVars, scriptVars>>

\* The outline pane: the entries written out in the component, whatever content is.
RenderOutline ==
    /\ output' = [pane |-> "outline", value |-> OutlineEntries]
    /\ UNCHANGED <<content, activeTab, diagramHtml, inflight, consoleErrors, revision, shownRev, lastResponse, oracleVars, scriptVars>>

NextPanes ==
    \/ MatchDiagrams
    \/ RenderPreview
    \/ RenderOutline

SpecPanes == InitPanes /\ [][NextPanes]_vars

(***************************************************************************)
(* The AIOracle component: the query form.                                 *)
(***************************************************************************)
\* The characters a query is typed from: a space, a tab and a letter.
QueryChars == {" ", "\t", "a"}

\* The whitespace among them.
Whitespace == {" ", "\t"}

\* Every query of at most MaxQueryLen characters.
Queries ==
    {Join(cs, "") : cs \in UNION {[1..n -> QueryChars] : n \in 0..MaxQueryLen}}

RECURSIVE TrimStart(_)
TrimStart(s) ==
    IF s # "" /\ SubSeq(s, 1, 1) \in Whitespace THEN TrimStart(SubSeq(s, 2, Len(s))) ELSE s

RECURSIVE TrimEnd(_)
TrimEnd(s) ==
    IF s # "" /\ SubSeq(s, Len(s), Len(s)) \in Whitespace
    THEN TrimEnd(SubSeq(s, 1, Len(s) - 1))
    ELSE s

\* query.trim()
Trim(s) == TrimEnd(TrimStart(s))

\* onChange={(e) => setQuery(e.target.value)}; the input is never disabled.
ChangeQuery(value) ==
    /\ query' = value
    /\ UNCHANGED <<isLoading, timers, asked, submits>>
    /\ UNCHANGED <<content, activeTab, diagramHtml, inflight, consoleErrors, revision, shownRev, lastResponse, output, scriptVars>>

\* A variant of HandleSubmit that tests the query without trimming it.
HandleSubmit_Untrimmed ==
    /\ ~isLoading
    /\ submits < MaxSubmits
    /\ submits' = submits + 1
    /\ IF query = ""
       THEN UNCHANGED <<query, isLoading, timers, asked>>
       ELSE /\ isLoading' = TRUE
            /\ timers' = timers + 1
            /\ asked' = query
            /\ UNCHANGED query
    /\ UNCHANGED <<content, activeTab, diagramHtml, inflight, consoleErrors, revision, shownRev, lastResponse, output, scriptVars>>

\* handleSubmit(e), called when the form is submitted; the submit button is
\* disabled while isLoading.
HandleSubmit ==
    /\ ~isLoading
    /\ submits < MaxSubmits
    /\ submits' = submits + 1
    /\ IF Trim(query) = ""
       THEN UNCHANGED <<query, isLoading, timers, asked>>
       ELSE /\ isLoading' = TRUE
            /\ timers' = timers + 1
            /\ asked' = query
            /\ UNCHANGED query
    /\ UNCHANGED <<content, activeTab, diagramHtml, inflight, consoleErrors, revision, shownRev, lastResponse, output, scriptVars>>

\* The callback of setTimeout(..., 2000) runs.
TimerFires ==
    /\ timers > 0
    /\ timers' = timers - 1
    /\ isLoading' = FALSE
    /\ query' = ""
    /\ UNCHANGED <<asked, submits>>
    /\ UNCHANGED <<content, activeTab, diagramHtml, inflight, consoleErrors, revision, shownRev, lastResponse, output, scriptVars>>

NextOracle ==
    \/ \E value \in Queries : ChangeQuery(value)
    \/ HandleSubmit
    \/ TimerFires

SpecOracle == Init /\ [][NextOracle]_vars

(***************************************************************************)
(* scripts/build-and-push.sh.  The script runs under set -e (line 5): a    *)
(* command that fails anywhere but in the condition of an if ends the      *)
(* script with that command's status.  What docker, az and the file system *)
(* answer is not the script's to decide: every command takes either        *)
(* outcome.                                                                *)
(***************************************************************************)

\* A value of $AZURE_CONTAINER_REGISTRY when it is set.
RegistryValue == "architex.azurecr.io"

\* VERSION=${1:-latest}, line 14, in a run without an argument.
VERSION == "latest"

\* REGISTRY_NAME=$(echo $AZURE_CONTAINER_REGISTRY | cut -d'.' -f1), line 62
REGISTRY_NAME(registry) == Split(registry, ".")[1]

\* DOCKERFILE_PATH, lines 75-81
DOCKERFILE_PATH(service) ==
    IF service = "frontend" THEN "frontend/Dockerfile"
    ELSE "services/" \o service \o "/Dockerfile"

\* IMAGE_NAME="$AZURE_CONTAINER_REGISTRY/$SERVICE:$VERSION", line 89
IMAGE_NAME(service) == RegistryValue \o "/" \o service \o ":" \o VERSION

\* echo_info, echo_warn, echo_error and echo_step, lines 23-37, without the
\* colour codes.
echo_info(text) == "[INFO] " \o text

echo_warn(text) == "[WARN] " \o text

echo_error(text) == "[ERROR] " \o text

echo_step(text) == "[STEP] " \o text

\* The message of line 100, without its emoji.
FinalMessage == echo_info("All images built and pushed successfully!")

\* An entry of ran: the command, its argument, and whether it returned 0.
Command(cmd, arg, ok) == [cmd |-> cmd, arg |-> arg, ok |-> ok]

\* if ! <cmd> &> /dev/null; then echo_error <message>; exit 1; fi
Check(cmd, message, next) ==
    /\ pc = cmd
    /\ \E ok \in BOOLEAN :
          /\ ran' = Append(ran, Command(cmd, "", ok))
          /\ IF ok
             THEN pc' = next /\ UNCHANGED stdout
             ELSE pc' = "exit 1" /\ stdout' = Append(stdout, echo_error(message))
    /\ UNCHANGED <<SERVICE, todo>>
    /\ UNCHANGED <<content, activeTab, diagramHtml, inflight, consoleErrors, revision, shownRev, lastResponse, output, oracleVars>>

\* lines 40-43
CheckDocker ==
    Check("docker info", "Docker is not running. Please start Docker first.", "command -v az")

\* lines 46-49
CheckAzInstalled ==
    Check("command -v az", "Azure CLI is not installed. Please install it first.", "az account show")

\* lines 51-54
CheckAzAccount ==
    Check("az account show", "You are not logged in to Azure. Please log in first.", "[ -z")

\* lines 57-65: [ -z "$AZURE_CONTAINER_REGISTRY" ] returns 0 when the variable
\* is unset or empty, and then the script exits; otherwise it prints where it
\* pushes to.
CheckRegistry ==
    /\ pc = "[ -z"
    /\ \E registry \in {"", RegistryValue} :
          /\ ran' = Append(ran, Command("[ -z", registry, registry = ""))
          /\ IF registry = ""
             THEN /\ pc' = "exit 1"
                  /\ stdout' = Append(stdout, echo_error("AZURE_CONTAINER_REGISTRY not set in environment"))
             ELSE /\ pc' = "az acr login"
                  /\ stdout' = stdout \o << echo_info("Building and pushing images to: " \o registry),
                                            echo_info("Version: " \o VERSION) >>
    /\ UNCHANGED <<SERVICE, todo>>
    /\ UNCHANGED <<content, activeTab, diagramHtml, inflight, consoleErrors, revision, shownRev, lastResponse, output, oracleVars>>

\* lines 68-69: az acr login --name $REGISTRY_NAME; set -e ends the script
\* when it fails.
AcrLogin ==
    /\ pc = "az acr login"
    /\ stdout' = Append(stdout, echo_step("Logging in to Azure Container Registry..."))
    /\ \E ok \in BOOLEAN :
          /\ ran' = Append(ran, Command("az acr login", REGISTRY_NAME(RegistryValue), ok))
          /\ pc' = IF ok THEN "for" ELSE "errexit"
    /\ UNCHANGED <<SERVICE, todo>>
    /\ UNCHANGED <<content, activeTab, diagramHtml, inflight, consoleErrors, revision, shownRev, lastResponse, output, oracleVars>>

\* lines 72-87: the loop takes the next service; [ ! -f "$DOCKERFILE_PATH" ]
\* returns 0 when there is no such file, and then the script warns and
\* continues with the service after it.
ForService ==
    /\ pc = "for"
    /\ todo # <<>>
    /\ SERVICE' = Head(todo)
    /\ todo' = Tail(todo)
    /\ \E missing \in BOOLEAN :
          /\ ran' = Append(ran, Command("[ ! -f", DOCKERFILE_PATH(SERVICE'), missing))
          /\ IF missing
             THEN /\ pc' = "for"
                  /\ stdout' = stdout \o << echo_step("Building " \o SERVICE' \o "..."),
                                            echo_warn("Dockerfile not found for " \o SERVICE' \o " at "
                                                          \o DOCKERFILE_PATH(SERVICE') \o ", skipping...") >>
             ELSE /\ pc' = "docker build"
                  /\ stdout' = Append(stdout, echo_step("Building " \o SERVICE' \o "..."))
    /\ UNCHANGED <<content, activeTab, diagramHtml, inflight, consoleErrors, revision, shownRev, lastResponse, output, oracleVars>>

\* A variant of DockerBuild without set -e: the script goes on to the push
\* whatever docker build returns.
DockerBuild_NoErrexit ==
    /\ pc = "docker build"
    /\ stdout' = Append(stdout, echo_info("Building image: " \o IMAGE_NAME(SERVICE)))
    /\ \E ok \in BOOLEAN :
          /\ ran' = Append(ran, Command("docker build", IMAGE_NAME(SERVICE), ok))
          /\ pc' = "docker push"
    /\ UNCHANGED <<SERVICE, todo>>
    /\ UNCHANGED <<content, activeTab, diagramHtml, inflight, consoleErrors, revision, shownRev, lastResponse, output, oracleVars>>

\* lines 89-92: docker build -t $IMAGE_NAME -f $DOCKERFILE_PATH $BUILD_CONTEXT;
\* set -e ends the script when it fails.
DockerBuild ==
    /\ pc = "docker build"
    /\ stdout' = Append(stdout, echo_info("Building image: " \o IMAGE_NAME(SERVICE)))
    /\ \E ok \in BOOLEAN :
          /\ ran' = Append(ran, Command("docker build", IMAGE_NAME(SERVICE), ok))
          /\ pc' = IF ok THEN "docker push" ELSE "errexit"
    /\ UNCHANGED <<SERVICE, todo>>
    /\ UNCHANGED <<content, activeTab, diagramHtml, inflight, consoleErrors, revision, shownRev, lastResponse, output, oracleVars>>

\* lines 94-98: docker push $IMAGE_NAME; set -e ends the script when it fails,
\* otherwise the script reports the service and the loop goes on.
DockerPush ==
    /\ pc = "docker push"
    /\ \E ok \in BOOLEAN :
          /\ ran' = Append(ran, Command("docker push", IMAGE_NAME(SERVICE), ok))
          /\ IF ok
             THEN /\ pc' = "for"
                  /\ stdout' = stdout \o << echo_info("Pushing image: " \o IMAGE_NAME(SERVICE)),
                                            echo_info("Successfully built and pushed " \o SERVICE) >>
             ELSE /\ pc' = "errexit"
                  /\ stdout' = Append(stdout, echo_info("Pushing image: " \o IMAGE_NAME(SERVICE)))
    /\ UNCHANGED <<SERVICE, todo>>
    /\ UNCHANGED <<content, activeTab, diagramHtml, inflight, consoleErrors, revision, shownRev, lastResponse, output, oracleVars>>

\* lines 100-112: the list is used up; the script prints the final message and
\* the next steps and ends with status 0.
Finish ==
    /\ pc = "for"
    /\ todo = <<>>
    /\ stdout' = stdout \o << FinalMessage, "=== Next Steps ===" >>
    /\ pc' = "exit 0"
    /\ UNCHANGED <<SERVICE, todo, ran>>
    /\ UNCHANGED <<content, activeTab, diagramHtml, inflight, consoleErrors, revision, shownRev, lastResponse, output, oracleVars>>

NextScript ==
    \/ CheckDocker
    \/ CheckAzInstalled
    \/ CheckAzAccount
    \/ CheckRegistry
    \/ AcrLogin
    \/ ForService
    \/ DockerBuild
    \/ DockerPush
    \/ Finish

\* A run of build-and-push.sh.
SpecScript == Init /\ [][NextScript]_vars

(***************************************************************************)
(* Vocabulary of the properties.                                           *)
(***************************************************************************)
\* The number of # characters a line starts with.
Hashes(line) ==
    LET stops == {n \in 0..Len(line) : n = Len(line) \/ SubSeq(line, n + 1, n + 1) # "#"}
    IN  CHOOSE n \in stops : \A k \in stops : n <= k

\* A heading line: one to six # characters, a space, and the label.
IsHeading(line) ==
    /\ Hashes(line) \in 1..6
    /\ SubSeq(line, Hashes(line) + 1, Hashes(line) + 1) = " "

RECURSIVE HeadingsOf(_)
HeadingsOf(lines) ==
    IF lines = <<>> THEN <<>>
    ELSE LET line == Head(lines)
             here == IF IsHeading(line)
                     THEN << [level |-> Hashes(line),
                              label |-> SubSeq(line, Hashes(line) + 2, Len(line))] >>
                     ELSE <<>>
         IN  here \o HeadingsOf(Tail(lines))

\* The headings of a text, in order.
Headings(text) == HeadingsOf(Split(text, "\n"))

\* The diagram blocks of each text the editor may deliver, as matchAll finds them.
Blocks == [d \in Documents |-> MatchAll(d)]

\* The diagram blocks of a text.
BlocksOf(text) == IF text \in Documents THEN Blocks[text] ELSE MatchAll(text)

\* The sources of the blocks after block 0 that differ from block 0's.
LaterSources ==
    UNION {{Blocks[d][i].group :
               i \in {k \in 2..Len(Blocks[d]) : Blocks[d][k].group # Blocks[d][1].group}} :
           d \in Documents}

\* Call c of mermaid.render is settled by this step.
Settles(c) == c \in inflight /\ c \notin inflight'

\* This step is a change of the document text (an accepted edit).
Edited == revision' # revision

\* What a render of block 0 of text can leave in the diagram view, whatever the
\* service answers; what the pane shows as "no diagram" when text has no diagram
\* block.
ArtifactsFor(text) ==
    LET matches == BlocksOf(text)
    IN  IF Len(matches) = 0 THEN {"", Undefined}
        ELSE ServiceMarkup(matches[1].group) \cup {ErrorHtml}

(***************************************************************************)
(* Properties.                                                             *)
(***************************************************************************)
\* C1: when the render started at revision r1 settles after the render started
\* at a later revision r2 has written its artifact (a drawing or a failure) to
\* the diagram view, the r1 result (a drawing or a failure as well) is discarded
\* and the view keeps the r2 artifact.
C1_StaleRenderDiscarded ==
    [][\A c \in inflight :
          (/\ Settles(c)
           /\ c.rev < shownRev
           /\ lastResponse.rev = shownRev
           /\ DiagramPane(diagramHtml) \in {"Ready", "Failed"}
           /\ DiagramPane(diagramHtml') \in {"Ready", "Failed"})
              => (diagramHtml' = diagramHtml /\ shownRev' = shownRev)]_vars

\* C2: whenever no render is in flight, the diagram view matches the current
\* text: it is an artifact of block 0 of that text, or "no diagram" when the text
\* has no diagram block.
C2_CleanViewMatchesText ==
    inflight = {} => diagramHtml \in ArtifactsFor(content)

\* C3: the outline lists exactly the headings of the current text.
C3_OutlineListsHeadings == Outline = Headings(content)

\* C4: an edit whose first diagram block has empty source calls the rendering
\* service for no revision and leaves a Failed artifact.
C4_EmptySourceNotRendered ==
    [][(Edited /\ Len(BlocksOf(content')) > 0 /\ BlocksOf(content')[1].group = "")
          => (inflight' = inflight /\ DiagramPane(diagramHtml') = "Failed")]_vars

C6_EmptyMarkupIsFailed ==
    [][\A c \in inflight :
          (Settles(c) /\ lastResponse'.ok /\ Falsy(lastResponse'.value))
              => (DiagramPane(diagramHtml') = "Failed"
                  /\ Contains(diagramHtml', "empty render result"))]_vars

\* C7: every render that settles, however it settles, leaves a Ready or a Failed artifact.
C7_EveryRenderYieldsArtifact ==
    [][\A c \in inflight :
          Settles(c) => DiagramPane(diagramHtml') \in {"Ready", "Failed"}]_vars

\* C8: an accepted edit that leaves the text with no diagram block calls the
\* rendering service for nothing and sets the diagram view to the empty, "no
\* diagram" state, which is no error.
C8_NoBlockMeansNoDiagram ==
    [][(Edited /\ Len(BlocksOf(content')) = 0)
          => (/\ inflight' = inflight
              /\ diagramHtml' = ""
              /\ DiagramPane(diagramHtml') = "NoDiagram"
              /\ consoleErrors' = consoleErrors)]_vars

\* C8 witness: a drawing had been shown, and the latest edit, to a text with no
\* diagram block, has emptied the view.
C8_Witness ==
    /\ revision > 0
    /\ Len(BlocksOf(content)) = 0
    /\ shownRev = revision
    /\ lastResponse.ok /\ ~Falsy(lastResponse.value)
    /\ diagramHtml = ""

\* C9: only block 0 of a text is passed to the rendering service: every call
\* carries the source of block 0 of the text it was made for, a revision makes
\* at most one call, and the source of a later block is neither in flight nor
\* drawn in the view.
C9_OnlyBlockZeroRendered ==
    /\ \A c \in inflight :
          /\ Len(BlocksOf(c.text)) >= 1
          /\ c.code = BlocksOf(c.text)[1].group
    /\ \A c1, c2 \in inflight : c1.rev = c2.rev => c1 = c2
    /\ \A later \in LaterSources :
          diagramHtml # Svg(later) /\ \A c \in inflight : c.code # later

\* C9 witness: two texts with the same block 0 and different blocks 1 have each
\* caused a call, and both calls carry the same source.
C9_Witness ==
    \E c1, c2 \in inflight :
        /\ c1.rev < c2.rev
        /\ Len(BlocksOf(c1.text)) >= 2 /\ Len(BlocksOf(c2.text)) >= 2
        /\ BlocksOf(c1.text)[2].group # BlocksOf(c2.text)[2].group
        /\ c1.code = c2.code

\* The text has a diagram block whose source is not empty.
HasNonEmptyBlock(text) ==
    \E i \in 1..Len(BlocksOf(text)) : BlocksOf(text)[i].group # ""

\* C10: every accepted edit whose text has a non-empty diagram block makes
\* exactly one call of the rendering service, for block 0 of the new text, also
\* when that source is the one the previous revision rendered.
C10_OneCallPerEdit ==
    [][(Edited /\ HasNonEmptyBlock(content'))
          => (/\ inflight \subseteq inflight'
              /\ Cardinality(inflight' \ inflight) = 1
              /\ \A c \in inflight' \ inflight :
                    /\ c.rev = revision'
                    /\ c.text = content'
                    /\ c.code = BlocksOf(content')[1].group)]_vars

\* C10 witness: two consecutive revisions have each made a call with the same,
\* non-empty source.
C10_Witness ==
    \E c1, c2 \in inflight :
        /\ c2.rev = c1.rev + 1
        /\ c1.code = c2.code
        /\ c1.code # ""

\* The effect has run on the text this step leaves: a call of mermaid.render
\* for block 0 of that text, or the view emptied when it has no diagram block.
DiagramPipelineRan ==
    IF Len(BlocksOf(content')) > 0
    THEN \E c \in inflight' \ inflight :
            c.rev = revision' /\ c.text = content' /\ c.code = BlocksOf(content')[1].group
    ELSE diagramHtml' = "" /\ shownRev' = revision'

\* C11: every accepted edit (an edit that delivers no value is accepted as the
\* empty text) raises the revision by one and runs the three derivations on the
\* new text: the diagram extraction, the outline and the preview.
C11_EditRunsThreePipelines ==
    [][Edited
          => (/\ revision' = revision + 1
              /\ DiagramPipelineRan
              /\ Outline = Headings(content')
              /\ Preview' = Previews[content'])]_vars

\* C12: a step that switches the pane shown changes nothing else: the text, the
\* revision, the diagram view and the renders in flight stay as they are, and
\* no call of the rendering service is made, also while a render is in flight.
C12_TabSwitchChangesOnlyTab ==
    [][activeTab' # activeTab
          => (/\ content' = content
              /\ revision' = revision
              /\ diagramHtml' = diagramHtml
              /\ shownRev' = shownRev
              /\ inflight' = inflight
              /\ consoleErrors' = consoleErrors
              /\ lastResponse' = lastResponse)]_vars

\* C12 witness: the diagram pane has been switched to while a drawing is shown
\* and a render of a later revision is in flight.
C12_Witness ==
    /\ activeTab = "diagram"
    /\ DiagramPane(diagramHtml) = "Ready"
    /\ \E c \in inflight : c.rev > shownRev

\* C13: a failed render touches the diagram view only: the step that shows the
\* failure leaves the text, the preview and the outline as they are, and after
\* a failure every accepted edit still recomputes the preview and the outline
\* from the new text.
C13_FailureTouchesDiagramOnly ==
    [][/\ \A c \in inflight :
             (Settles(c) /\ ~lastResponse'.ok)
                 => (/\ DiagramPane(diagramHtml') = "Failed"
                     /\ content' = content
                     /\ Preview' = Preview)
       /\ (Edited /\ Len(consoleErrors) > 0)
             => (/\ Preview' = Previews[content']
                 /\ Outline = Headings(content'))]_vars

\* C14: when the render of block 0 of the latest revision is fulfilled with
\* markup that is not empty, the diagram view is Ready and holds exactly the
\* markup returned.  For the text with one heading and one diagram fence around
\* the lines "graph TB" and "A-->B", the source passed to the service is exactly
\* those two lines, and the markup returned for it is shown as returned.
C14_SuccessCommitsMarkup ==
    [][\A c \in inflight :
          (/\ Settles(c)
           /\ c.rev = revision
           /\ lastResponse'.ok
           /\ ~Falsy(lastResponse'.value))
              => (/\ c.text = content
                  /\ c.code = BlocksOf(content)[1].group
                  /\ diagramHtml' = lastResponse'.value
                  /\ DiagramPane(diagramHtml') = "Ready"
                  /\ shownRev' = revision
                  /\ content = DocTitle
                        => (/\ c.code = "graph TB\nA-->B"
                            /\ diagramHtml' = Svg("graph TB\nA-->B")))]_vars

\* C14 witness: the text is the one with one heading and the "graph TB" fence,
\* and the render of its latest revision has been fulfilled and is shown.
C14_Witness ==
    /\ content = DocTitle
    /\ revision > 0
    /\ lastResponse = [rev |-> revision, ok |-> TRUE, value |-> Svg("graph TB\nA-->B")]
    /\ shownRev = revision
    /\ diagramHtml = Svg("graph TB\nA-->B")
    /\ DiagramPane(diagramHtml) = "Ready"

RECURSIVE FencesFrom(_, _)
\* The fenced blocks among the lines from line i on, as markdown reads them: a
\* line that starts with the marker opens a block, tagged with the rest of that
\* line, and the next line that is the marker alone closes it.  A block that is
\* never closed is no marker pair.
FencesFrom(lines, i) ==
    IF i > Len(lines) THEN <<>>
    ELSE IF ~StartsWith(lines[i], "'''") THEN FencesFrom(lines, i + 1)
    ELSE LET closers == {j \in (i + 1)..Len(lines) : lines[j] = "'''"}
             close == CHOOSE j \in closers : \A k \in closers : j <= k
         IN  IF closers = {} THEN <<>>
             ELSE << [tag   |-> SubSeq(lines[i], 4, Len(lines[i])),
                      body  |-> Join(SubSeq(lines, i + 1, close - 1), "\n"),
                      open  |-> i,
                      close |-> close] >> \o FencesFrom(lines, close + 1)

\* The fenced blocks of a text that carry the diagram tag, in order.
DiagramFences(text) ==
    SelectSeq(FencesFrom(Split(text, "\n"), 1), LAMBDA f : f.tag = "mermaid")

\* C15: for every text, the extraction returns one block per diagram-tagged
\* fenced block of the text (none when there is none), in the order of the
\* text, and the spans of the blocks do not overlap.
C15_OneBlockPerFence ==
    output.pane = "diagram"
        => LET blocks == output.value
           IN  /\ Len(blocks) = Len(DiagramFences(content))
               /\ \A i \in 1..Len(blocks) : blocks[i].index < blocks[i].last
               /\ \A i \in 1..(Len(blocks) - 1) : blocks[i].last <= blocks[i + 1].index

\* The text has a diagram-tagged fenced block with the opening marker of
\* another one on a line of its body.
HasNestedDiagramFence(text) ==
    \E i \in 1..Len(DiagramFences(text)) :
        LET inner == Split(DiagramFences(text)[i].body, "\n")
        IN  \E n \in 1..Len(inner) : inner[n] = "'''mermaid"

\* C16: when a diagram-tagged fence opens inside another one, the outer fence
\* wins: the extraction yields one block per outer fence, and its source is the
\* whole body of that fence, the inner opening marker and the inner content
\* included as plain text, up to the outer fence's closing marker.
C16_OuterFenceWins ==
    (output.pane = "diagram" /\ HasNestedDiagramFence(content))
        => LET blocks == output.value
               fences == DiagramFences(content)
           IN  /\ Len(blocks) = Len(fences)
               /\ \A i \in 1..Len(blocks) :
                     /\ blocks[i].group = fences[i].body
                     /\ Contains(blocks[i].group, "'''mermaid")

RECURSIVE OutlineTree(_)
\* The outline tree of a list of headings, as a stack of open ancestors builds
\* it: a heading closes every open node of its level or deeper, so its children
\* are the headings after it up to the next one of its level or above, nested
\* the same way, and that next one starts the next sibling.
OutlineTree(headings) ==
    IF headings = <<>> THEN <<>>
    ELSE LET h == Head(headings)
             rest == Tail(headings)
             stops == {k \in 1..Len(rest) : rest[k].level <= h.level}
             stop == IF stops = {} THEN Len(rest) + 1
                     ELSE CHOOSE k \in stops : \A j \in stops : k <= j
         IN  << [level |-> h.level, label |-> h.label,
                 children |-> OutlineTree(SubSeq(rest, 1, stop - 1))] >>
                 \o OutlineTree(SubSeq(rest, stop, Len(rest)))

\* The level and the label of each entry the outline pane shows.
EntryHeadings(entries) ==
    [i \in 1..Len(entries) |-> [level |-> entries[i].level, label |-> entries[i].label]]

\* A node of the outline tree.
Node(level, label, children) == [level |-> level, label |-> label, children |-> children]

\* C17: the outline shown for a text is the tree of its headings nested by
\* level (the entries read as a tree by their indentation); for headings at
\* levels 1, 2, 3, 2, 1 it is [1 [2 [3], 2], 1].
C17_OutlineNestedByLevel ==
    output.pane = "outline"
        => /\ OutlineTree(EntryHeadings(output.value)) = OutlineTree(Headings(content))
           /\ content = FiveHeadings
                 => OutlineTree(EntryHeadings(output.value))
                        = << Node(1, "P", << Node(2, "Q", << Node(3, "R", <<>>) >>),
                                             Node(2, "S", <<>>) >>),
                             Node(1, "T", <<>>) >>

UpperCase == "ABCDEFGHIJKLMNOPQRSTUVWXYZ"

LowerCase == "abcdefghijklmnopqrstuvwxyz"

\* A character, lowercased.
ToLower(ch) ==
    IF Contains(UpperCase, ch)
    THEN SubSeq(LowerCase, IndexOf(UpperCase, ch, 1), IndexOf(UpperCase, ch, 1))
    ELSE ch

\* A letter or a digit.
IsAlphanumeric(ch) == Contains(LowerCase \o "0123456789", ToLower(ch))

RECURSIVE SlugFrom(_, _)
\* label lowercased, each run of other characters collapsed to one "-"; inRun
\* says that the character before was one of a run.
SlugFrom(label, inRun) ==
    IF label = "" THEN ""
    ELSE LET ch == SubSeq(label, 1, 1)
             rest == SubSeq(label, 2, Len(label))
         IN  IF IsAlphanumeric(ch) THEN ToLower(ch) \o SlugFrom(rest, FALSE)
             ELSE (IF inRun THEN "" ELSE "-") \o SlugFrom(rest, TRUE)

\* The anchors of a list of headings: the slug of the label, and for the k-th
\* heading with the same slug (k >= 2) the slug followed by "-k".
Anchors(headings) ==
    [i \in 1..Len(headings) |->
        LET slug == SlugFrom(headings[i].label, FALSE)
            k == Cardinality({j \in 1..i : SlugFrom(headings[j].label, FALSE) = slug})
        IN  IF k = 1 THEN slug ELSE slug \o "-" \o ToString(k)]

\* C18: the entries of one outline have pairwise distinct anchors, each derived
\* from the label of its entry (the link of an entry is "#" and its anchor); for
\* the text with the headings "# A" and "# A" the anchors are "a" and "a-2".
C18_DistinctAnchors ==
    output.pane = "outline"
        => LET entries == output.value
               anchors == Anchors(EntryHeadings(entries))
           IN  /\ \A i \in 1..Len(entries) : entries[i].href = "#" \o anchors[i]
               /\ \A i, j \in 1..Len(entries) : i # j => entries[i].href # entries[j].href
               /\ content = "# A\n# A"
                     => [i \in 1..Len(entries) |-> entries[i].href] = <<"#a", "#a-2">>

\* The fenced code blocks of a text, in order: its fenced blocks that do not
\* carry the diagram tag.
CodeFences(text) ==
    SelectSeq(FencesFrom(Split(text, "\n"), 1), LAMBDA f : f.tag # "mermaid")

\* C19: the preview of a text holds the body of each of its fenced code blocks
\* as it is written (its line breaks apart), inside the code element: no
\* heading rule and no emphasis rule has touched it.
C19_CodeBodyVerbatim ==
    output.pane = "preview"
        => \A i \in 1..Len(CodeFences(content)) :
              CodeFences(content)[i].body # ""
                  => Contains(output.value,
                              PreOpen \o LineBreaks(CodeFences(content)[i].body) \o PreClose)

\* Line i of the text lies in the span of one of its diagram blocks.
InDiagramBlock(text, i) ==
    LET start == Len(Join(SubSeq(Split(text, "\n"), 1, i - 1), "\n")) + (IF i > 1 THEN 2 ELSE 1)
    IN  \E n \in 1..Len(MatchAll(text)) :
            MatchAll(text)[n].index <= start /\ start < MatchAll(text)[n].last

\* A text with its emphasis spans marked up.
Emphasized(s) == EmphasisRule(EmphasisRule(s, "**", "<strong>", "</strong>"), "*", "<em>", "</em>")

\* The opening tag of a heading of level 1, 2 or 3.
HeadingOpen(k) == IF k = 1 THEN H1Open ELSE IF k = 2 THEN H2Open ELSE H3Open

\* The text of the heading line i of a text, after its marker.
HeadingText(text, i) ==
    SubSeq(Split(text, "\n")[i], Hashes(Split(text, "\n")[i]) + 2, Len(Split(text, "\n")[i]))

\* The heading lines of a text outside its diagram blocks.
HeadingLines(text) ==
    {i \in 1..Len(Split(text, "\n")) : IsHeading(Split(text, "\n")[i]) /\ ~InDiagramBlock(text, i)}

\* C20 as stated: the preview turns every line of k # and a space, k from 1
\* to 6, into a heading of level k, with the rest of the line as its text.
C20_HeadingsOneToSix ==
    output.pane = "preview"
        => \A i \in HeadingLines(content) :
              LET k == Hashes(Split(content, "\n")[i])
              IN  Contains(output.value,
                           "<h" \o ToString(k) \o " class=") /\
                  Contains(output.value,
                           "\">" \o Emphasized(HeadingText(content, i)) \o "</h" \o ToString(k) \o ">")

\* C20 as amended: the preview turns a line of k # and a space into a heading
\* of level k, with the rest of the line as its text, for k from 1 to 3 only; a
\* line of 4, 5 or 6 # and a space is no heading and stays in the preview as
\* it is written.
C20_HeadingsOneToThree ==
    output.pane = "preview"
        => \A i \in HeadingLines(content) :
              LET k == Hashes(Split(content, "\n")[i])
              IN  IF k <= 3
                  THEN Contains(output.value,
                                HeadingOpen(k) \o Emphasized(HeadingText(content, i))
                                    \o "</h" \o ToString(k) \o ">")
                  ELSE /\ Contains(output.value, Emphasized(Split(content, "\n")[i]))
                       /\ ~Contains(output.value, "<h" \o ToString(k))
                       /\ ~Contains(output.value, "</h" \o ToString(k) \o ">")

\* C20 witness: the preview of a text with a line of three # and a line of four.
C20_Witness ==
    /\ content = "### A\n#### A"
    /\ output = [pane |-> "preview", value |-> H3Open \o "A</h3><br>#### A"]

\* C21: an accepted edit whose text has a diagram block leaves the diagram view
\* exactly as it was (nothing is written for the pending render), and the view
\* changes only in a step in which a render settles, fulfilled or rejected, or
\* in an accepted edit whose text has no diagram block.
C21_ViewWaitsForRender ==
    [][/\ (Edited /\ Len(BlocksOf(content')) > 0)
             => (/\ diagramHtml' = diagramHtml
                 /\ shownRev' = shownRev
                 /\ \E c \in inflight' : c.rev = revision')
       /\ diagramHtml' # diagramHtml
             => \/ \E c \in inflight : Settles(c)
                \/ Edited /\ Len(BlocksOf(content')) = 0]_vars

\* C21 witness: a drawing of an earlier revision is shown while the render of
\* the latest edit is in flight.
C21_Witness ==
    /\ revision > shownRev
    /\ lastResponse.rev = shownRev
    /\ DiagramPane(diagramHtml) = "Ready"
    /\ diagramHtml = lastResponse.value
    /\ \E c \in inflight : c.rev = revision

\* C22: in the AI Oracle, a submission of an empty or whitespace-only query
\* changes neither isLoading nor the query; a submission of any other query
\* sets isLoading and leaves the query; and when the timer of a submission
\* fires, isLoading is false and the query is empty, whatever has been typed
\* into the query since.
C22_SubmitAndTimer ==
    [][/\ (submits' # submits /\ Trim(query) = "")
             => (isLoading' = isLoading /\ query' = query /\ timers' = timers)
       /\ (submits' # submits /\ Trim(query) # "")
             => (isLoading' = TRUE /\ query' = query /\ timers' = timers + 1)
       /\ timers' < timers
             => (isLoading' = FALSE /\ query' = "")]_vars

\* C22 witness: a query that is not blank has been submitted, its timer has
\* not fired yet, and another text has been typed into the query meanwhile.
C22_Witness ==
    /\ isLoading
    /\ timers = 1
    /\ Trim(asked) # ""
    /\ query # asked
    /\ query # ""

\* The script has printed the message of line 100.
FinalPrinted == \E i \in 1..Len(stdout) : stdout[i] = FinalMessage

\* The command has been run and has returned 0.
Succeeded(cmd) == \E i \in 1..Len(ran) : ran[i].cmd = cmd /\ ran[i].ok

\* The registry variable was found set.
RegistrySet == \E i \in 1..Len(ran) : ran[i].cmd = "[ -z" /\ ~ran[i].ok

\* The loop has found the Dockerfile of the service.
HasDockerfile(service) ==
    \E i \in 1..Len(ran) : ran[i] = Command("[ ! -f", DOCKERFILE_PATH(service), FALSE)

\* The loop has found no Dockerfile for the service.
Skipped(service) ==
    \E i \in 1..Len(ran) : ran[i] = Command("[ ! -f", DOCKERFILE_PATH(service), TRUE)

\* The image of the service has been built, and after that pushed, both with
\* success.
BuiltThenPushed(service) ==
    \E i, j \in 1..Len(ran) :
        /\ i < j
        /\ ran[i] = Command("docker build", IMAGE_NAME(service), TRUE)
        /\ ran[j] = Command("docker push", IMAGE_NAME(service), TRUE)

\* The i-th command run was a check that did not pass or a step that failed.
FailedAt(i) ==
    IF ran[i].cmd = "[ -z" THEN ran[i].ok
    ELSE IF ran[i].cmd = "[ ! -f" THEN FALSE
    ELSE ~ran[i].ok

\* C23: when build-and-push.sh has printed its final message, the four checks
\* have passed, the registry login has succeeded, and every service whose
\* Dockerfile was found has been built and then pushed with success; no build
\* and no push is run after a check that did not pass or a step that failed;
\* and a service without a Dockerfile is neither built nor pushed and does not
\* end the run.
C23_FinalMessageMeansAllSucceeded ==
    /\ FinalPrinted =>
          /\ Succeeded("docker info")
          /\ Succeeded("command -v az")
          /\ Succeeded("az account show")
          /\ RegistrySet
          /\ Succeeded("az acr login")
          /\ \A k \in 1..Len(SERVICES) :
                HasDockerfile(SERVICES[k]) => BuiltThenPushed(SERVICES[k])
    /\ \A i, j \in 1..Len(ran) :
          (FailedAt(i) /\ i < j) => ran[j].cmd \notin {"docker build", "docker push"}
    /\ \A k \in 1..Len(SERVICES) :
          Skipped(SERVICES[k]) =>
              /\ \A i \in 1..Len(ran) : ran[i].arg # IMAGE_NAME(SERVICES[k])
              /\ (ran[Len(ran)].cmd = "[ ! -f" => pc \in {"for", "docker build", "exit 0"})

\* C23 witness: the final message has been printed in a run that skipped a
\* service and built and pushed another.
C23_Witness ==
    /\ FinalPrinted
    /\ pc = "exit 0"
    /\ \E k \in 1..Len(SERVICES) : Skipped(SERVICES[k])
    /\ \E k \in 1..Len(SERVICES) : BuiltThenPushed(SERVICES[k])

====
